---- MODULE Spec2Model ----
(***************************************************************************)
(* FourCast budget tracker (src/MAIN/main.py): the record store with its   *)
(* undo/redo snapshots, the sanitizer, the summary metrics and the page    *)
(* pass that Streamlit runs after every interaction.                       *)
(*                                                                         *)
(* Python lists are objects: `heap` maps a list identity to its contents,  *)
(* and records / history / redo_stack hold identities, so that aliasing    *)
(* between the live list and a snapshot is expressible.  The dicts inside  *)
(* the lists are never mutated after construction, hence they are values.  *)
(***************************************************************************)
EXTENDS Integers, Sequences, FiniteSets, TLC

VARIABLES
  heap,          \* list identity -> contents (a sequence of records)
  records,       \* st.session_state.records: a list identity
  history,       \* st.session_state.history: identities, most recent last
  redo_stack,    \* st.session_state.redo_stack: identities
  categories,    \* st.session_state.categories
  disk,          \* user_data.json
  view,          \* what the last page pass showed, or the exception that
                 \* ended it
  pandas_build,  \* "object" when the installed pandas gives a column of
                 \* strings the object dtype, "str" when it does not
  last_action,   \* history variable: the last interaction
  round_trip,    \* history variable: progress of add / undo / redo
  m_in,          \* arguments of create_spending_metrics checked on its own
  m_out,         \* its result
  s_in,          \* a raw batch handed to sanitize_records on its own
  s_out,         \* what sanitize_records made of it, once and twice
  f_in,          \* stored records handed to the tracker's tabs on their own
  f_out,         \* the daily series and the forecast the tabs derive
  form_open,     \* TRUE while the new_category form is on the page
  saves,         \* history variable: the save_data() calls of the last
                 \* interaction
  before         \* history variable: the contents of history and
                 \* redo_stack when the last undo or redo took a snapshot

vars == <<heap, records, history, redo_stack, categories, disk, view,
          pandas_build, last_action, round_trip, m_in, m_out, s_in, s_out,
          f_in, f_out, form_open, saves, before>>

session == <<heap, records, history, redo_stack, categories, disk, view,
             pandas_build, last_action, round_trip, form_open, saves,
             before>>

\* the functions that are also run on their own
offline == <<m_in, m_out, s_in, s_out, f_in, f_out>>

\* ---------------------------------------------------------------- bounds
\* the longest records list an add may extend, and the most snapshots held
\* in history and redo_stack together
MaxRecords == 2
MaxSnapshots == 2

\* -------------------------------------------------------------- calendar
\* Day number of a civil date, counted from 1970-01-01.
days_from_civil(y, m, d) ==
  LET yy  == IF m <= 2 THEN y - 1 ELSE y
      era == yy \div 400
      yoe == yy - era * 400
      mp  == IF m > 2 THEN m - 3 ELSE m + 9
      doy == (153 * mp + 2) \div 5 + d - 1
      doe == yoe * 365 + yoe \div 4 - yoe \div 100 + doy
  IN  era * 146097 + doe - 719468

\* Monday = 0 ... Sunday = 6 (1970-01-01 was a Thursday).
weekday(day) == (day + 3) % 7

\* calendar.monthrange(year, month)[1]
monthrange(y, m) ==
  IF m = 12 THEN 31
  ELSE days_from_civil(y, m + 1, 1) - days_from_civil(y, m, 1)

\* len(pd.date_range(first, last, freq="B"))
num_weekdays(y, m) ==
  LET first == days_from_civil(y, m, 1)
      last  == first + monthrange(y, m) - 1
  IN  Cardinality({d \in first..last : weekday(d) < 5})

FloorDate == days_from_civil(2018, 1, 1)
Today == days_from_civil(2026, 11, 4)

\* ----------------------------------------------------------------- cells
\* A date cell is a Timestamp, a parseable string, an unparseable string or
\* a missing value; an amount cell is a number or an unparseable string.
Ts(d)  == [k |-> "ts", d |-> d]
Str(d) == [k |-> "str", d |-> d]
BadDate == [k |-> "bad", d |-> 0]
NaN == [k |-> "nan", d |-> 0]
Num(v) == [k |-> "num", v |-> v]
BadNum == [k |-> "bad", v |-> 0]

Range(s) == {s[i] : i \in DOMAIN s}

RECURSIVE SumSeq(_)
SumSeq(s) == IF s = <<>> THEN 0 ELSE Head(s) + SumSeq(Tail(s))

Amounts(rows) == [i \in DOMAIN rows |-> rows[i].Amount]

\* ------------------------------------------------------------- rationals
RECURSIVE Gcd(_, _)
Gcd(a, b) == IF b = 0 THEN a ELSE Gcd(b, a % b)

Abs(x) == IF x < 0 THEN 0 - x ELSE x

\* n / d with d > 0, in lowest terms
Rat(n, d) ==
  LET g == Gcd(Abs(n), d)
  IN  IF g = 0 THEN <<0, 1>> ELSE <<n \div g, d \div g>>

RatInt(n) == <<n, 1>>
RatMul(a, b) == Rat(a[1] * b[1], a[2] * b[2])
RatSub(a, b) == Rat(a[1] * b[2] - b[1] * a[2], a[2] * b[2])
RatDiv(a, b) ==
  IF b[1] > 0 THEN Rat(a[1] * b[2], a[2] * b[1])
  ELSE Rat(0 - a[1] * b[2], a[2] * (0 - b[1]))

\* ------------------------------------------------------------- sanitizer
NoLabel == <<"No Label">>
Uncategorized == "Uncategorized"
AllColumns == {"Date", "Expense Label", "Expense Amount", "Category"}

\* pd.to_datetime(..., errors="coerce"): Timestamps and parseable strings
\* give a date, everything else NaT.
to_datetime(c) ==
  IF c.k \in {"ts", "str"} THEN [nat |-> FALSE, d |-> c.d]
  ELSE [nat |-> TRUE, d |-> 0]

\* pd.to_numeric(..., errors="coerce").fillna(0.0)
to_numeric(c) == IF c.k = "num" THEN c.v ELSE 0

\* df["Date"].dtype == 'object': the column holds strings and the build
\* infers object dtype for them (always so when Timestamps are mixed in).
\* This branch parses with utc=True and yields a tz-aware column.
date_is_object(rows, cols, build) ==
  /\ "Date" \in cols
  /\ \E i \in DOMAIN rows : rows[i].Date.k \in {"str", "bad"}
  /\ \/ build = "object"
     \/ \E i \in DOMAIN rows : rows[i].Date.k = "ts"

\* Lines 84-112: the per-row coercions and the column defaults.
parse_rows(rows, cols) ==
  [i \in DOMAIN rows |->
     LET dt == IF "Date" \in cols THEN to_datetime(rows[i].Date)
               ELSE [nat |-> TRUE, d |-> 0]
     IN  [nat      |-> dt.nat,
          Date     |-> dt.d,
          Label    |-> IF "Expense Label" \in cols THEN rows[i].Label
                       ELSE NoLabel,
          Amount   |-> IF "Expense Amount" \in cols
                       THEN to_numeric(rows[i].Amount) ELSE 0,
          Category |-> IF "Category" \in cols THEN rows[i].Category
                       ELSE Uncategorized]]

\* Lines 115-117: drop NaT, keep dates in ["2018-01-01", today].
in_range(r) == r.Date >= FloorDate /\ r.Date <= Today

date_filter(rows) ==
  SelectSeq(rows, LAMBDA r : ~r.nat /\ in_range(r))

\* Lines 120-124: 3-sigma trimming with the sample standard deviation
\* (Series.std() has ddof=1).  With n rows of amounts a_i and S their sum,
\* dev_i = n*a_i - S and SS = sum of dev_i^2:
\*   std > 0                    iff  SS > 0
\*   |a_i - mean| <= 3 * std    iff  dev_i^2 * (n - 1) <= 9 * SS
Dev(rows, i) == Len(rows) * rows[i].Amount - SumSeq(Amounts(rows))

SumSqDev(rows) ==
  SumSeq([i \in DOMAIN rows |-> Dev(rows, i) * Dev(rows, i)])

within_3_pop_std(rows, i) ==
  Dev(rows, i) * Dev(rows, i) * Len(rows) <= 9 * SumSqDev(rows)

within_3_std(rows, i) ==
  Dev(rows, i) * Dev(rows, i) * (Len(rows) - 1) <= 9 * SumSqDev(rows)

RECURSIVE KeepIdx(_, _)
KeepIdx(rows, i) ==
  IF i > Len(rows) THEN <<>>
  ELSE IF within_3_std(rows, i)
       THEN <<rows[i]>> \o KeepIdx(rows, i + 1)
       ELSE KeepIdx(rows, i + 1)

outlier_filter(rows) ==
  IF Len(rows) > 5 /\ SumSqDev(rows) > 0 THEN KeepIdx(rows, 1)
  ELSE rows

strip_nat(rows) ==
  [i \in DOMAIN rows |-> [Date |-> rows[i].Date, Label |-> rows[i].Label,
                          Amount |-> rows[i].Amount,
                          Category |-> rows[i].Category]]

\* sanitize_records: raised = TRUE stands for the TypeError of comparing the
\* tz-aware column with the tz-naive `today` in between().
sanitize_records(rows, cols, build) ==
  IF rows = <<>> THEN [raised |-> FALSE, rows |-> <<>>]
  ELSE IF date_is_object(rows, cols, build)
       THEN [raised |-> TRUE, rows |-> <<>>]
       ELSE [raised |-> FALSE,
             rows |-> strip_nat(outlier_filter(date_filter(
                                                parse_rows(rows, cols))))]

\* DataFrame.to_dict("records"): Timestamps and floats again.
to_dict_records(df) ==
  [i \in DOMAIN df |-> [Date |-> Ts(df[i].Date), Label |-> df[i].Label,
                        Amount |-> Num(df[i].Amount),
                        Category |-> df[i].Category]]

\* ------------------------------------------------------------ aggregator
MaxOf(S) == CHOOSE x \in S : \A y \in S : y <= x
MinOf(S) == CHOOSE x \in S : \A y \in S : x <= y

Dates(df) == {df[i].Date : i \in DOMAIN df}

limit_date_range(df, days_limit) ==
  IF df = <<>> THEN df
  ELSE LET span == MaxOf(Dates(df)) - MinOf(Dates(df))
           cutoff == MaxOf(Dates(df)) - days_limit
       IN  IF span > days_limit
           THEN SelectSeq(df, LAMBDA r : r.Date > cutoff)
           ELSE df

\* groupby("Date")["Expense Amount"].sum()
daily_sum(df, d) ==
  SumSeq(Amounts(SelectSeq(df, LAMBDA r : r.Date = d)))

\* groupby("Category")["Expense Amount"].sum()
category_sum(df, c) ==
  SumSeq(Amounts(SelectSeq(df, LAMBDA r : r.Category = c)))
CategoriesOf(df) == {df[i].Category : i \in DOMAIN df}

\* category_breakdown.index[0]; a tie between the largest totals is taken
\* as one of the tied names.
top_category_of(df) ==
  IF CategoriesOf(df) = {} THEN "None"
  ELSE CHOOSE c \in CategoriesOf(df) :
         \A e \in CategoriesOf(df) : category_sum(df, e) <= category_sum(df, c)

EmptyDict == [x \in {} |-> 0]

row_count(df) == Len(df)

\* df["Date"].nunique()
nunique_dates(df) == Cardinality(Dates(df))

create_spending_metrics(df, daily_allowance) ==
  IF df = <<>> THEN EmptyDict
  ELSE LET total_spent == SumSeq(Amounts(df))
           total_days == nunique_dates(df)
           total_allowance == RatMul(RatInt(total_days), daily_allowance)
           total_savings == RatSub(total_allowance, RatInt(total_spent))
       IN  [total_spent     |-> total_spent,
            avg_daily_spend |-> Rat(total_spent, total_days),
            max_daily_spend |-> MaxOf({daily_sum(df, d) : d \in Dates(df)}),
            total_savings   |-> total_savings,
            savings_rate    |-> IF total_allowance[1] > 0
                                THEN RatMul(RatDiv(total_savings,
                                                   total_allowance),
                                            RatInt(100))
                                ELSE RatInt(0),
            top_category    |-> top_category_of(df),
            total_days      |-> total_days]

\* ----------------------------------------------------------- persistence
DefaultCategories ==
  <<"Food", "Transport", "Entertainment", "Shopping", "Bills",
    "Healthcare", "Other">>

NoFile == [exists |-> FALSE, records |-> <<>>, categories |-> <<>>]

\* json.dump(..., default=str): a Timestamp is written as its string.
json_default(c) == IF c.k = "ts" THEN Str(c.d) ELSE c

save_data_records_only(recs, cats) ==
  [exists     |-> TRUE,
   records    |-> [i \in DOMAIN recs |->
                     [recs[i] EXCEPT !.Date = json_default(@)]],
   categories |-> <<>>]

\* Lines 40-53: the whole document is written anew.
save_data(recs, cats) ==
  [exists     |-> TRUE,
   records    |-> [i \in DOMAIN recs |->
                     [recs[i] EXCEPT !.Date = json_default(@)]],
   categories |-> cats]

\* load_data: the default structure when there is no file or reading it
\* fails (pd.to_datetime raises on an unparseable date string).
load_data(doc) ==
  IF doc.exists /\ \A i \in DOMAIN doc.records :
                      doc.records[i].Date.k \in {"ts", "str"}
  THEN [records    |-> [i \in DOMAIN doc.records |->
                          [doc.records[i] EXCEPT !.Date = Ts(@.d)]],
        categories |-> doc.categories]
  ELSE [records |-> <<>>, categories |-> DefaultCategories]

\* ------------------------------------------------------------- page pass
DefaultMonthly == 5000
QuickStatsDays == 20
DaysLimit == 120

\* Lines 416-421 with the sidebar's initial year and month.
daily_allowance_of(monthly_allowance, year, month) ==
  IF num_weekdays(year, month) # 0
  THEN Rat(monthly_allowance, num_weekdays(year, month))
  ELSE RatInt(0)

Blank == [fault |-> "none", shown |-> FALSE, total_spent |-> 0]

\* One run of the script after the handlers: sidebar quick stats (336-341),
\* tracker metrics (424-438), dashboard pie (597-605).  The first unhandled
\* exception ends the run; `shown` tells whether Total Spent was displayed.
page_pass(recs, build) ==
  IF recs = <<>> THEN Blank
  ELSE LET s == sanitize_records(recs, AllColumns, build)
           quick == create_spending_metrics(
                      s.rows, Rat(DefaultMonthly, QuickStatsDays))
           metrics == create_spending_metrics(
                        s.rows, daily_allowance_of(DefaultMonthly, 2026, 11))
           df == limit_date_range(s.rows, DaysLimit)
       IN  IF s.raised THEN [Blank EXCEPT !.fault = "TypeError"]
           ELSE IF "total_spent" \notin DOMAIN quick
                THEN [Blank EXCEPT !.fault = "KeyError"]
           ELSE IF "total_spent" \notin DOMAIN metrics
                THEN [Blank EXCEPT !.fault = "KeyError"]
           ELSE [fault |-> IF \E c \in CategoriesOf(df) :
                                category_sum(df, c) < 0
                           THEN "ValueError" ELSE "none",
                 shown |-> TRUE,
                 total_spent |-> metrics.total_spent]

\* A control can be clicked only if the last run reached the line that
\* renders it; the sidebar exception at line 340 precedes every control.
controls_rendered == view.fault \notin {"KeyError", "TypeError"}

\* ------------------------------------------------------------ list heap
fresh(used) == CHOOSE i \in 1..(Cardinality(used) + 1) : i \notin used

same_list(h, l) == l

\* list.copy(): the identity of a new list object
list_copy(h, l) == fresh(DOMAIN h)

alloc(h, ref, contents) ==
  IF ref \in DOMAIN h THEN h ELSE h @@ (ref :> contents)

\* Identities are renumbered in order of first appearance in
\* <<records>> \o history \o redo_stack: which lists are the same object is
\* kept, unreachable lists are dropped.
FirstAt(order, id) == CHOOSE i \in DOMAIN order :
                        order[i] = id /\ \A j \in 1..(i - 1) : order[j] # id

Rank(order, id) ==
  Cardinality({FirstAt(order, e) : e \in {x \in Range(order) :
                                   FirstAt(order, x) <= FirstAt(order, id)}})

Renumber(order, s) == [i \in DOMAIN s |-> Rank(order, s[i])]

Commit(rec, hist, redo, h) ==
  LET order == <<rec>> \o hist \o redo
  IN  /\ records' = Rank(order, rec)
      /\ history' = Renumber(order, hist)
      /\ redo_stack' = Renumber(order, redo)
      /\ heap' = [n \in {Rank(order, e) : e \in Range(order)} |->
                    h[CHOOSE e \in Range(order) : Rank(order, e) = n]]

popped_first(s) == s[1]

peeked(s) == s

\* list.pop(): the last element leaves the list
popped(s) == s[Len(s)]
Front(s) == SubSeq(s, 1, Len(s) - 1)

\* The most recent interaction: the control, its inputs and the contents
\* of records when it was clicked.
Event(op, arg) == [op |-> op, arg |-> arg, pre |-> heap[records]]

NoEvent == [op |-> "start", arg |-> <<>>, pre |-> <<>>]

\* Progress of an add / undo / redo sequence: R0 is the contents of records
\* before the add and A the record it appended.
Idle == [phase |-> "idle", R0 |-> <<>>, A |-> <<>>]

\* The lists held by history and redo_stack, by value.
Contents(h, stack) == [i \in DOMAIN stack |-> h[stack[i]]]

Stacks ==
  [history |-> Contents(heap, history),
   redo_stack |-> Contents(heap, redo_stack)]

NoStacks == [history |-> <<>>, redo_stack |-> <<>>]

Log(op, arg, rt) ==
  /\ last_action' = Event(op, arg)
  /\ round_trip' = rt
  /\ before' = IF \/ (op = "undo_btn" /\ history # <<>>)
                  \/ (op = "redo_btn" /\ redo_stack # <<>>)
               THEN Stacks ELSE NoStacks

\* --------------------------------------------------------------- inputs
FormDates == {Today, Today + 1}
FormAmounts == {0, 100}
FormLabels == {<<>>, <<" ">>, <<" ", "L">>}
FormCategories == {"Food"}
FormNames == {"", "Food", "Pets"}

\* Uploaded files as process_uploaded_csv hands them over: every cell a
\* string.  A header-only file, a good row, a row with an unreadable date,
\* and both rows.
CsvGood == [Date |-> Str(Today), Label |-> <<"csv">>, Amount |-> Num(0 - 5),
            Category |-> "Food"]
CsvBad == [CsvGood EXCEPT !.Date = BadDate]

Batches ==
  {[cols |-> AllColumns, rows |-> r] :
     r \in {<<>>, <<CsvGood>>, <<CsvBad>>, <<CsvGood, CsvBad>>}}

\* ------------------------------------------------------------- handlers
RECURSIVE lstrip(_)
lstrip(s) == IF s # <<>> /\ Head(s) = " " THEN lstrip(Tail(s)) ELSE s

RECURSIVE rstrip(_)
rstrip(s) ==
  IF s # <<>> /\ s[Len(s)] = " " THEN rstrip(Front(s)) ELSE s

\* str.strip()
strip(s) == rstrip(lstrip(s))

add_is_valid_unstripped(expense_amount, expense_label) ==
  ~(expense_amount <= 0) /\ expense_label # <<>>

\* Lines 531-535: the two validation branches of the add form
add_is_valid(expense_amount, expense_label) ==
  ~(expense_amount <= 0) /\ strip(expense_label) # <<>>

\* Lines 530-546
add_expense(expense_date, expense_label, expense_amount, expense_category) ==
  /\ controls_rendered
  /\ IF ~add_is_valid(expense_amount, expense_label)
     THEN /\ Log("add_expense",
                 <<[amount |-> expense_amount, label |-> expense_label]>>,
                 Idle)
          /\ saves' = 0
          /\ UNCHANGED <<heap, records, history, redo_stack, disk, view>>
     ELSE /\ Len(heap[records]) < MaxRecords
          /\ Len(history) < MaxSnapshots
          /\ LET snap == list_copy(heap, records)
                 h1   == alloc(heap, snap, heap[records])
                 rec  == [Date     |-> Ts(expense_date),
                          Label    |-> strip(expense_label),
                          Amount   |-> Num(expense_amount),
                          Category |-> expense_category]
                 h2   == [h1 EXCEPT ![records] = Append(@, rec)]
                 hist == Append(history, snap)
             IN  /\ Commit(records, hist, <<>>, h2)
                 /\ disk' = save_data(h2[records], categories)
                 /\ saves' = 1
                 /\ view' = page_pass(h2[records], pandas_build)
                 /\ Log("add_expense",
                        <<[amount |-> expense_amount,
                           label |-> expense_label]>>,
                        [phase |-> "added", R0 |-> heap[records], A |-> rec])
  /\ form_open' = FALSE
  /\ UNCHANGED <<categories, pandas_build, offline>>

always_undo(hist) == TRUE

\* Lines 549-550: the click is honoured only with a non-empty history
can_undo(hist) == hist # <<>>

\* Lines 558-559
can_redo(redo) == redo # <<>>

IndexError == [Blank EXCEPT !.fault = "IndexError"]

\* Lines 548-555
undo_btn ==
  /\ controls_rendered
  /\ Log("undo_btn", <<>>,
         IF can_undo(history) /\ round_trip.phase = "added"
         THEN [round_trip EXCEPT !.phase = "undone"] ELSE Idle)
  /\ IF ~can_undo(history)
     THEN /\ saves' = 0
          /\ UNCHANGED <<heap, records, history, redo_stack, disk, view>>
     ELSE /\ LET snap == list_copy(heap, records)
                 h1   == alloc(heap, snap, heap[records])
                 redo == Append(redo_stack, snap)
             IN  IF history = <<>>
                 THEN \* history.pop() raises after the redo push
                      /\ Commit(records, history, redo, h1)
                      /\ view' = IndexError
                      /\ saves' = 0
                      /\ UNCHANGED disk
                 ELSE /\ Commit(popped(history), Front(history), redo, h1)
                      /\ disk' = save_data(h1[popped(history)], categories)
                      /\ saves' = 1
                      /\ view' = page_pass(h1[popped(history)], pandas_build)
  /\ form_open' = FALSE
  /\ UNCHANGED <<categories, pandas_build, offline>>

\* Lines 557-564
redo_btn ==
  /\ controls_rendered
  /\ Log("redo_btn", <<>>,
         IF can_redo(redo_stack) /\ round_trip.phase = "undone"
         THEN [round_trip EXCEPT !.phase = "redone"] ELSE Idle)
  /\ IF ~can_redo(redo_stack)
     THEN /\ saves' = 0
          /\ UNCHANGED <<heap, records, history, redo_stack, disk, view>>
     ELSE /\ LET snap == list_copy(heap, records)
                 h1   == alloc(heap, snap, heap[records])
                 hist == Append(history, snap)
             IN  IF redo_stack = <<>>
                 THEN \* redo_stack.pop() raises after the history push
                      /\ Commit(records, hist, redo_stack, h1)
                      /\ view' = IndexError
                      /\ saves' = 0
                      /\ UNCHANGED disk
                 ELSE /\ Commit(popped(redo_stack), hist, Front(redo_stack),
                                h1)
                      /\ disk' = save_data(h1[popped(redo_stack)],
                                           categories)
                      /\ saves' = 1
                      /\ view' = page_pass(h1[popped(redo_stack)],
                                           pandas_build)
  /\ form_open' = FALSE
  /\ UNCHANGED <<categories, pandas_build, offline>>

\* Lines 350-355 and 489-494: three new empty lists, then save and rerun.
reset_handler(key) ==
  /\ controls_rendered
  /\ Log(key, <<>>, Idle)
  /\ Commit(fresh({}), <<>>, <<>>, (fresh({}) :> <<>>))
  /\ disk' = save_data(<<>>, categories)
  /\ saves' = 1
  /\ view' = page_pass(<<>>, pandas_build)
  /\ form_open' = FALSE
  /\ UNCHANGED <<categories, pandas_build, offline>>

reset_all == reset_handler("reset_all")
reset_tracker == reset_handler("reset_tracker")

import_snapshot_late(current, cleaned) == cleaned

\* The contents pushed by history.append(st.session_state.records.copy())
\* in the confirm handlers: the records held before the assignment.
import_snapshot(current, cleaned) == current

\* Lines 375-381 and 474-480.  A TypeError out of sanitize_records is caught
\* by the enclosing except (383, 482) before anything is assigned.
confirm_handler(key, batch) ==
  /\ controls_rendered
  /\ LET cleaned == sanitize_records(batch.rows, batch.cols, pandas_build)
     IN  IF cleaned.raised
         THEN /\ Log("load_failed", <<>>, Idle)
              /\ saves' = 0
              /\ UNCHANGED <<heap, records, history, redo_stack, disk, view>>
         ELSE /\ Len(history) + Len(redo_stack) < MaxSnapshots
              /\ LET loaded == to_dict_records(cleaned.rows)
                     snap == list_copy(heap, records)
                     h1   == alloc(heap, snap,
                                   import_snapshot(heap[records], loaded))
                     new  == fresh(DOMAIN h1)
                     h2   == alloc(h1, new, loaded)
                     hist == Append(history, snap)
                 IN  /\ Commit(new, hist, redo_stack, h2)
                     /\ disk' = save_data(loaded, categories)
                     /\ saves' = 1
                     /\ view' = page_pass(loaded, pandas_build)
                     /\ Log(key, <<>>, Idle)
  /\ form_open' = FALSE
  /\ UNCHANGED <<categories, pandas_build, offline>>

confirm_sidebar(batch) == confirm_handler("confirm_sidebar", batch)
confirm_upload(batch) == confirm_handler("confirm_upload", batch)

session_categories_merged(saved_data) ==
  DefaultCategories \o saved_data.categories

\* Line 282: saved_data.get("categories", [...])
session_categories(saved_data) == saved_data.categories

\* Lines 279-288: a new session reads the document; history and redo_stack
\* start empty.
new_session ==
  /\ Log("new_session", <<>>, Idle)
  /\ Commit(fresh({}), <<>>, <<>>, (fresh({}) :> load_data(disk).records))
  /\ categories' = session_categories(load_data(disk))
  /\ view' = page_pass(load_data(disk).records, pandas_build)
  /\ form_open' = FALSE
  /\ saves' = 0
  /\ UNCHANGED <<disk, pandas_build, offline>>

\* st.button and st.form_submit_button read True only in the pass that a
\* click on them started.
button(key, clicked) == key = clicked

\* Line 571: `new_cat and new_cat not in st.session_state.categories`
category_is_new(new_cat, cats) == new_cat # "" /\ new_cat \notin Range(cats)

\* Lines 566-575 in the pass started by a click on `clicked`, the text input
\* holding new_cat: the form and its submit button are created only inside
\* `if st.button(... key="add_cat_btn")`.
new_category(clicked, new_cat) ==
  /\ controls_rendered
  /\ Log(clicked, <<new_cat>>, Idle)
  /\ IF /\ button("add_cat_btn", clicked)
        /\ button("add_cat_submit", clicked)
        /\ category_is_new(new_cat, categories)
     THEN /\ categories' = Append(categories, new_cat)
          /\ disk' = save_data(heap[records], categories')
          /\ saves' = 1
          /\ form_open' = FALSE
     ELSE /\ form_open' = button("add_cat_btn", clicked)
          /\ saves' = 0
          /\ UNCHANGED <<categories, disk>>
  /\ UNCHANGED <<heap, records, history, redo_stack, view, pandas_build,
                 offline>>

add_cat_btn == new_category("add_cat_btn", "")

\* the Add button of the form can be clicked while the form is on the page
add_cat_submit(new_cat) ==
  /\ form_open
  /\ new_category("add_cat_submit", new_cat)

\* ---------------------------------------------------------- specification
NoBatch == [rows |-> <<>>, cols |-> AllColumns]
NotSanitized ==
  [phase |-> "new", raised |-> FALSE, dated |-> <<>>, rows |-> <<>>,
   again |-> <<>>]
NoForecast ==
  [notice |-> "none", methods |-> {}, future_dates |-> <<>>,
   forecast_amounts |-> <<>>]
NotRendered ==
  [done |-> FALSE, tabs |-> FALSE, daily_summary |-> <<>>,
   daily_spending |-> <<>>, forecast |-> NoForecast]

NoInput == [df |-> <<>>, monthly |-> 0, year |-> 2026, month |-> 1]

Init ==
  /\ pandas_build \in {"object", "str"}
  /\ records = fresh({})
  /\ heap = (records :> <<>>)
  /\ history = <<>>
  /\ redo_stack = <<>>
  /\ categories = DefaultCategories
  /\ disk = NoFile
  /\ view = Blank
  /\ last_action = NoEvent
  /\ round_trip = Idle
  /\ m_in = NoInput
  /\ m_out = [done |-> FALSE, result |-> EmptyDict]
  /\ s_in = NoBatch
  /\ s_out = NotSanitized
  /\ f_in = <<>>
  /\ f_out = NotRendered
  /\ form_open = FALSE
  /\ saves = 0
  /\ before = NoStacks

Next ==
  \/ \E d \in FormDates, l \in FormLabels, a \in FormAmounts,
        c \in FormCategories \cap Range(categories) : add_expense(d, l, a, c)
  \/ undo_btn
  \/ redo_btn
  \/ reset_all
  \/ reset_tracker
  \/ \E b \in Batches : confirm_sidebar(b)
  \/ \E b \in Batches : confirm_upload(b)
  \/ new_session
  \/ add_cat_btn
  \/ \E n \in FormNames : add_cat_submit(n)

Spec == Init /\ [][Next]_vars

\* ------------------------------------------- create_spending_metrics alone
MaxFrame == 2

Day1 == days_from_civil(2026, 11, 2)
Day2 == days_from_civil(2026, 11, 3)

FrameRows ==
  [Date : {Day1, Day2}, Label : {<<"L">>}, Amount : {100, 300},
   Category : {"Food", "Other"}]

Frames == UNION {[1..k -> FrameRows] : k \in 0..MaxFrame}

MetricInputs ==
  [df : Frames, monthly : {0, 5000}, year : {2024, 2026}, month : {1, 2, 11}]

\* Lines 416-426: the daily allowance for the chosen month, then the metrics
compute_metrics ==
  /\ ~m_out.done
  /\ m_out' = [done |-> TRUE,
               result |-> create_spending_metrics(
                            m_in.df,
                            daily_allowance_of(m_in.monthly, m_in.year,
                                               m_in.month))]
  /\ UNCHANGED <<session, m_in, s_in, s_out, f_in, f_out>>

InitMetrics ==
  /\ pandas_build = "str"
  /\ records = fresh({})
  /\ heap = (records :> <<>>)
  /\ history = <<>>
  /\ redo_stack = <<>>
  /\ categories = DefaultCategories
  /\ disk = NoFile
  /\ view = Blank
  /\ last_action = NoEvent
  /\ round_trip = Idle
  /\ m_in \in MetricInputs
  /\ m_out = [done |-> FALSE, result |-> EmptyDict]
  /\ s_in = NoBatch
  /\ s_out = NotSanitized
  /\ f_in = <<>>
  /\ f_out = NotRendered
  /\ form_open = FALSE
  /\ saves = 0
  /\ before = NoStacks

NextMetrics == compute_metrics

SpecMetrics == InitMetrics /\ [][NextMetrics]_vars

\* ------------------------------------------------- sanitize_records alone
\* the longest run of equal rows in a batch
MaxRun == 10

RawRow(date, amount) ==
  [Date |-> date, Label |-> <<"L">>, Amount |-> amount, Category |-> "Food"]

BaseRow == RawRow(Ts(Day1), Num(10))

\* Rows that differ from BaseRow in the amount, and rows that differ in the
\* date: Timestamps on and around both ends of the window, a date string, an
\* unreadable string and an empty cell.
FreeRows ==
  {RawRow(Ts(Day1), a) :
     a \in {Num(0 - 5), Num(0), Num(40), Num(100), BadNum}}
  \cup
  {RawRow(d, Num(10)) :
     d \in {Ts(Today), Ts(Today + 1), Ts(FloorDate), Ts(FloorDate - 1),
            Str(Day2), BadDate, NaN}}

Edge == {<<>>} \cup {<<r>> : r \in FreeRows}

Repeat(r, k) == [i \in 1..k |-> r]

ColumnSets ==
  {AllColumns, AllColumns \ {"Date"}, AllColumns \ {"Expense Amount"},
   {"Date", "Expense Amount"}}

\* BaseRow as a stored record has it and as an uploaded file has it
BaseRows == {BaseRow, RawRow(Str(Day1), Num(10))}

\* Six rows of amount 10 and one of 1000, dated by Timestamps, by strings
\* or by both.
LiteralBatches ==
  {[rows |-> Repeat(base, 6) \o <<RawRow(d, Num(1000))>>,
    cols |-> AllColumns] :
     base \in BaseRows, d \in {Ts(Day1), Ts(Today), Str(Day1)}}

\* A batch: at most one free row, a run of a base row, at most one free
\* row; or one of the literal batches.
RawBatches ==
  {[rows |-> pre \o Repeat(base, k) \o suf, cols |-> c] :
     pre \in Edge, base \in BaseRows, k \in 0..MaxRun, suf \in Edge,
     c \in ColumnSets}
  \cup LiteralBatches

\* cleaned = sanitize_records(records) (lines 376, 475); `dated` is the
\* frame as line 117 leaves it.
call_sanitize ==
  /\ s_out.phase = "new"
  /\ LET r == sanitize_records(s_in.rows, s_in.cols, pandas_build)
     IN  s_out' = [phase  |-> "once",
                   raised |-> r.raised,
                   dated  |-> IF r.raised THEN <<>>
                              ELSE strip_nat(date_filter(
                                     parse_rows(s_in.rows, s_in.cols))),
                   rows   |-> r.rows,
                   again  |-> <<>>]
  /\ UNCHANGED <<session, m_in, m_out, s_in, f_in, f_out>>

\* records = cleaned.to_dict("records") (378, 477), then the page pass runs
\* sanitize_records(st.session_state.records) on them (337, 425, 587).
call_sanitize_again ==
  /\ s_out.phase = "once"
  /\ ~s_out.raised
  /\ s_out' = [s_out EXCEPT
                 !.phase = "twice",
                 !.again = sanitize_records(to_dict_records(s_out.rows),
                                            AllColumns, pandas_build).rows]
  /\ UNCHANGED <<session, m_in, m_out, s_in, f_in, f_out>>

InitSanitize ==
  /\ pandas_build \in {"object", "str"}
  /\ records = fresh({})
  /\ heap = (records :> <<>>)
  /\ history = <<>>
  /\ redo_stack = <<>>
  /\ categories = DefaultCategories
  /\ disk = NoFile
  /\ view = Blank
  /\ last_action = NoEvent
  /\ round_trip = Idle
  /\ m_in = NoInput
  /\ m_out = [done |-> FALSE, result |-> EmptyDict]
  /\ s_in \in RawBatches
  /\ s_out = NotSanitized
  /\ f_in = <<>>
  /\ f_out = NotRendered
  /\ form_open = FALSE
  /\ saves = 0
  /\ before = NoStacks

NextSanitize == call_sanitize \/ call_sanitize_again

SpecSanitize == InitSanitize /\ [][NextSanitize]_vars

\* ------------------------------------------------- the tracker tabs alone
\* the number of days, ending today, that the stored records fall on
MaxSpan == 10

RECURSIVE SortSet(_)
SortSet(S) ==
  IF S = {} THEN <<>> ELSE <<MinOf(S)>> \o SortSet(S \ {MinOf(S)})

\* Lines 633-637: df.groupby("Date").agg({"Expense Amount": ["sum",
\* "count"]}).reset_index(), one row per date that has a record, ascending.
daily_summary(df) ==
  LET dates == SortSet(Dates(df))
  IN  [i \in DOMAIN dates |->
         [Date               |-> dates[i],
          Total_Spent        |-> daily_sum(df, dates[i]),
          Number_of_Expenses |->
            Len(SelectSeq(df, LAMBDA r : r.Date = dates[i]))]]

\* Line 789: df.groupby("Date").agg({"Expense Amount": "sum"}).reset_index()
daily_spending(df) ==
  LET dates == SortSet(Dates(df))
  IN  [i \in DOMAIN dates |->
         [Date |-> dates[i], Amount |-> daily_sum(df, dates[i])]]

future_days == 7

\* pd.date_range(start, periods=n): n consecutive calendar days
date_range(start, periods) == [i \in 1..periods |-> start + i - 1]

\* Lines 791-849: the average of the daily totals repeated over the next
\* seven days, or the warning of line 849.
forecast_tab(spending) ==
  IF Len(spending) >= 2
  THEN [notice   |-> "none",
        methods  |-> {"average"},
        future_dates |->
          date_range(spending[Len(spending)].Date + 1, future_days),
        forecast_amounts |->
          [i \in 1..future_days |->
             Rat(SumSeq(Amounts(spending)), Len(spending))]]
  ELSE [NoForecast EXCEPT !.notice = "Need at least 2 days of data"]

\* Stored records: one on every day of a set of days inside the span, all
\* of 50 or growing by 10 a day, and possibly a second one on the first day.
TabDays == (Today - MaxSpan + 1)..Today

StoredRecord(d, a) ==
  [Date |-> Ts(d), Label |-> <<"L">>, Amount |-> Num(a), Category |-> "Food"]

TabRecords ==
  {[i \in DOMAIN SortSet(D) |->
      StoredRecord(SortSet(D)[i], IF rising THEN 10 * i ELSE 50)]
     \o (IF extra /\ D # {} THEN <<StoredRecord(MinOf(D), 5)>> ELSE <<>>) :
   D \in SUBSET TabDays, rising \in BOOLEAN, extra \in BOOLEAN}

\* Lines 585-849: the tabs are reached when there are records and nothing
\* above them raised.
render_tabs ==
  /\ ~f_out.done
  /\ LET df == limit_date_range(
                 sanitize_records(f_in, AllColumns, pandas_build).rows,
                 DaysLimit)
     IN  f_out' =
           IF f_in = <<>> \/ page_pass(f_in, pandas_build).fault # "none"
           THEN [NotRendered EXCEPT !.done = TRUE]
           ELSE [done           |-> TRUE,
                 tabs           |-> TRUE,
                 daily_summary  |-> daily_summary(df),
                 daily_spending |-> daily_spending(df),
                 forecast       |-> forecast_tab(daily_spending(df))]
  /\ UNCHANGED <<session, m_in, m_out, s_in, s_out, f_in>>

InitTabs ==
  /\ pandas_build \in {"object", "str"}
  /\ records = fresh({})
  /\ heap = (records :> <<>>)
  /\ history = <<>>
  /\ redo_stack = <<>>
  /\ categories = DefaultCategories
  /\ disk = NoFile
  /\ view = Blank
  /\ last_action = NoEvent
  /\ round_trip = Idle
  /\ m_in = NoInput
  /\ m_out = [done |-> FALSE, result |-> EmptyDict]
  /\ s_in = NoBatch
  /\ s_out = NotSanitized
  /\ f_in \in TabRecords
  /\ f_out = NotRendered
  /\ form_open = FALSE
  /\ saves = 0
  /\ before = NoStacks

NextTabs == render_tabs

SpecTabs == InitTabs /\ [][NextTabs]_vars

\* ================================================================ claims
StoredAmounts == [i \in DOMAIN heap[records] |-> heap[records][i].Amount.v]

Added == last_action.op = "add_expense" /\ round_trip.phase = "added"
Imported == last_action.op \in {"confirm_sidebar", "confirm_upload"}
WasReset == last_action.op \in {"reset_all", "reset_tracker"}

IsBlank(label) == \A i \in DOMAIN label : label[i] = " "

\* C1: after add(A) on records R0 followed by undo, records equals R0 by
\* value; after a following redo, records equals R0 followed by A.
C1_UndoRedoRoundTrip ==
  /\ round_trip.phase = "undone" => heap[records] = round_trip.R0
  /\ round_trip.phase = "redone" =>
       heap[records] = Append(round_trip.R0, round_trip.A)

C1_Witness ==
  /\ round_trip.phase = "redone"
  /\ round_trip.R0 # <<>>
  /\ last_action.op = "redo_btn"

\* C2: immediately after every add, every confirmed import and every reset
\* the redo_stack is empty.
C2_MutationClearsRedo ==
  (Added \/ Imported \/ WasReset) => redo_stack = <<>>

\* C3 as stated: after every add, confirmed import and reset the top of
\* history is a copy of the records held before the operation.
C3_SnapshotBeforeEveryMutation ==
  (Added \/ Imported \/ WasReset) =>
     history # <<>> /\ heap[popped(history)] = last_action.pre

C3_SnapshotInv ==
  /\ (Added \/ Imported) =>
        history # <<>> /\ heap[popped(history)] = last_action.pre
  /\ WasReset => history = <<>> /\ redo_stack = <<>> /\ heap[records] = <<>>

\* C3 amended: after every add and every confirmed import the top of
\* history is a copy of the records held before it, and an undo issued next
\* restores exactly those records; a reset leaves history, redo_stack and
\* records empty, so an undo issued next changes nothing.
C3_SnapshotBeforeAddAndImport ==
  /\ []C3_SnapshotInv
  /\ [][/\ (Added \/ Imported) /\ last_action'.op = "undo_btn" =>
             heap'[records'] = last_action.pre
        /\ WasReset /\ last_action'.op = "undo_btn" =>
             UNCHANGED <<heap, records, history, redo_stack, disk>>]_vars

C3_Witness ==
  /\ Imported
  /\ last_action.pre # <<>>
  /\ heap[records] # last_action.pre
  /\ heap[popped(history)] = last_action.pre

\* C4: an undo with empty history, and a redo with empty redo_stack, change
\* neither records, history, redo_stack, categories nor the document.
C4_EmptyUndoRedoNoOp ==
  [][(\/ last_action'.op = "undo_btn" /\ history = <<>>
      \/ last_action'.op = "redo_btn" /\ redo_stack = <<>>) =>
       UNCHANGED <<heap, records, history, redo_stack, categories, disk>>]_vars

C4_Witness ==
  /\ last_action.op = "undo_btn"
  /\ history = <<>>
  /\ redo_stack = <<>>
  /\ heap[records] # <<>>
  /\ disk.exists

\* C5: the live records list and the snapshots in history and redo_stack
\* are pairwise different list objects.
C5_SnapshotsIndependent ==
  LET snaps == history \o redo_stack
  IN  /\ records \notin Range(snaps)
      /\ \A i, j \in DOMAIN snaps : snaps[i] = snaps[j] => i = j

C5_Witness ==
  /\ history # <<>>
  /\ redo_stack # <<>>
  /\ heap[records] # <<>>
  /\ heap[popped(history)] # heap[records]

\* C6: an add whose amount is <= 0 or whose label is empty or blank changes
\* neither records, history, redo_stack nor the document.
C6_InvalidAddRejected ==
  [][(/\ last_action'.op = "add_expense"
      /\ \/ last_action'.arg[1].amount <= 0
         \/ IsBlank(last_action'.arg[1].label)) =>
       UNCHANGED <<heap, records, history, redo_stack, categories, disk>>]_vars

C6_Witness ==
  /\ last_action.op = "add_expense"
  /\ last_action.arg[1].amount > 0
  /\ last_action.arg[1].label = <<" ">>
  /\ heap[records] = last_action.pre
  /\ heap[records] # <<>>

\* C7: no page pass ends in an unhandled exception.
C7_NoUnhandledException == view.fault = "none"

\* C8: for an empty record set, and for any input whose total allowance is
\* 0, the metrics carry savings_rate = 0 (top_category "None" when empty).
C8_SavingsRateGuard ==
  (m_out.done /\ (m_in.df = <<>> \/ m_in.monthly = 0)) =>
     /\ "savings_rate" \in DOMAIN m_out.result
     /\ m_out.result.savings_rate = RatInt(0)
     /\ m_in.df = <<>> => m_out.result.top_category = "None"

\* C9: the Total Spent that is displayed equals the sum of the amounts of
\* all stored records.
C9_TotalsCoverAllRecords ==
  view.shown => view.total_spent = SumSeq(StoredAmounts)

Weekdays(y, m) ==
  {d \in days_from_civil(y, m, 1)..(days_from_civil(y, m, 1) + 30) :
     /\ weekday(d) \notin {5, 6}
     /\ d < (IF m = 12 THEN days_from_civil(y + 1, 1, 1)
             ELSE days_from_civil(y, m + 1, 1))}

\* C10: daily_allowance = monthly / (Mon-Fri days of the month); for d
\* distinct dates summing to s: total_days = d, total_savings =
\* d * daily_allowance - s and savings_rate = total_savings /
\* total_allowance * 100; 5000 over 20 business days is exactly 250, and
\* 300 + 100 on two days then give 400, 2, 100 and 20.
C10_SummaryArithmetic ==
  (m_out.done /\ m_in.df # <<>>) =>
    LET r  == m_out.result
        w  == Cardinality(Weekdays(m_in.year, m_in.month))
        d  == Cardinality({m_in.df[i].Date : i \in DOMAIN m_in.df})
        s  == SumSeq(Amounts(m_in.df))
        sv == r.total_savings
        sr == r.savings_rate
    IN  /\ r.total_spent = s
        /\ r.total_days = d
        \* total_savings = d * monthly / w - s
        /\ sv[1] * w = (d * m_in.monthly - s * w) * sv[2]
        \* savings_rate * total_allowance = total_savings * 100
        /\ m_in.monthly > 0 =>
             sr[1] * (d * m_in.monthly) * sv[2] = sv[1] * 100 * w * sr[2]
        /\ (m_in.monthly = 5000 /\ w = 20 /\ s = 400 /\ d = 2) =>
             sv = <<100, 1>> /\ sr = <<20, 1>>

C10_Witness ==
  /\ m_out.done
  /\ m_in.monthly = 5000
  /\ Cardinality(Weekdays(m_in.year, m_in.month)) = 20
  /\ Len(m_in.df) = 2
  /\ m_in.df[1].Date = Day1 /\ m_in.df[1].Amount = 300
  /\ m_in.df[2].Date = Day2 /\ m_in.df[2].Amount = 100
  /\ m_out.result.total_spent = 400
  /\ m_out.result.savings_rate = <<20, 1>>

\* ------------------------------------------------ sanitize_records, stated
Sanitized == s_out.phase # "new"
Returned == s_out.phase # "new" /\ ~s_out.raised

\* a date cell that reads as a calendar date inside [2018-01-01, today]
InWindow(c) ==
  /\ c.k \in {"ts", "str"}
  /\ days_from_civil(2018, 1, 1) <= c.d
  /\ c.d <= Today

HasValidDate(r) == "Date" \in s_in.cols /\ InWindow(r.Date)

\* the amount a raw row stands for: its number, 0 when the cell is absent
\* or unreadable
AmountOf(r) ==
  IF "Expense Amount" \in s_in.cols /\ r.Amount.k = "num" THEN r.Amount.v
  ELSE 0

\* the raw rows with a valid date, in input order, and their amounts
Survivors == SelectSeq(s_in.rows, HasValidDate)
SurvivorAmounts == [i \in DOMAIN Survivors |-> AmountOf(Survivors[i])]

DatesOf(rows) == [i \in DOMAIN rows |-> rows[i].Date]

\* C11: every record that sanitize_records outputs has amount >= 0.
C11_AmountNonNegative ==
  Sanitized => \A i \in DOMAIN s_out.rows : s_out.rows[i].Amount >= 0

\* C12: sanitize_records returns; the rows that pass its date step are
\* exactly the rows whose date is present, readable and inside
\* [2018-01-01, today], in input order; every output date is in that window.
C12_DateFilter ==
  Sanitized =>
    /\ ~s_out.raised
    /\ DatesOf(s_out.dated) = [i \in DOMAIN Survivors |-> Survivors[i].Date.d]
    /\ \A i \in DOMAIN s_out.rows :
         /\ days_from_civil(2018, 1, 1) <= s_out.rows[i].Date
         /\ s_out.rows[i].Date <= Today

\* With n amounts a of sum S, n*x - S is n times the distance of x from the
\* mean, and SumSqDist(a) is n*n times the sum of the squared distances.
SqDist(a, x) == (Len(a) * x - SumSeq(a)) * (Len(a) * x - SumSeq(a))
SumSqDist(a) == SumSeq([i \in DOMAIN a |-> SqDist(a, a[i])])

\* x is more than 3 population standard deviations (divisor n) from the mean
PopulationOutlier(a, x) ==
  /\ Len(a) > 5
  /\ SumSqDist(a) > 0
  /\ SqDist(a, x) * Len(a) > 9 * SumSqDist(a)

\* x is more than 3 sample standard deviations (divisor n - 1) from the mean
SampleOutlier(a, x) ==
  /\ Len(a) > 5
  /\ SumSqDist(a) > 0
  /\ SqDist(a, x) * (Len(a) - 1) > 9 * SumSqDist(a)

LiteralAmounts == <<10, 10, 10, 10, 10, 10, 1000>>

\* C13: for seven valid-dated rows with amounts [10,10,10,10,10,10,1000]
\* sanitize_records returns the rows without the 1000 row if 1000 exceeds
\* the mean plus three standard deviations of the seven amounts, and all
\* seven rows, in order, if it does not.
C13_LiteralBatch ==
  (Sanitized /\ Len(s_in.rows) = 7 /\ SurvivorAmounts = LiteralAmounts) =>
    /\ ~s_out.raised
    /\ Amounts(s_out.rows) =
         (IF PopulationOutlier(LiteralAmounts, 1000)
          THEN <<10, 10, 10, 10, 10, 10>> ELSE LiteralAmounts)

\* what the outlier step (lines 119-124) was given and what it left; a call
\* that raised at line 117 never ran the step
StepInput == Amounts(s_out.dated)
StepOutput == Amounts(s_out.rows)

\* C14 as stated: the outlier step removes exactly the rows that are more
\* than 3 population standard deviations from the mean of the batch that
\* survived the date filter, and only when that batch has more than 5 rows
\* and a standard deviation > 0.
C14_OutlierRulePopulation ==
  Sanitized =>
    /\ Returned => StepInput = SurvivorAmounts
    /\ StepOutput =
         SelectSeq(StepInput, LAMBDA x : ~PopulationOutlier(StepInput, x))

\* C14 amended: the same with the sample standard deviation (divisor
\* n - 1); with 5 or fewer surviving rows, or all-identical amounts,
\* nothing is removed.
C14_OutlierRuleSample ==
  Sanitized =>
    /\ Returned => StepInput = SurvivorAmounts
    /\ StepOutput =
         SelectSeq(StepInput, LAMBDA x : ~SampleOutlier(StepInput, x))
    /\ (Len(StepInput) <= 5 \/ SumSqDist(StepInput) = 0) =>
         StepOutput = StepInput

\* a row is removed from a batch that holds a date-dropped row as well
C14_Witness ==
  /\ Returned
  /\ Len(s_in.rows) = 12
  /\ Len(Survivors) = 11
  /\ Len(s_out.rows) = 10
  /\ \E i \in DOMAIN Survivors : SampleOutlier(SurvivorAmounts,
                                                  SurvivorAmounts[i])

\* C15: sanitizing the records made from a sanitized batch gives the same
\* rows in the same order, so a page pass shows every imported record.
C15_Idempotent ==
  s_out.phase = "twice" => s_out.again = s_out.rows

\* ------------------------------------------------------ the tabs, stated
TabsShown == f_out.done /\ f_out.tabs

RecordDays == {f_in[i].Date.d : i \in DOMAIN f_in}

IsBusinessDay(d) == weekday(d) \notin {5, 6}

\* C16: the daily series has exactly one entry for every Monday-Friday
\* date from the first to the last record date, in order, with total 0 on
\* the business days without a record, and no Saturday or Sunday entry.
C16_BusinessDayReindex ==
  TabsShown =>
    LET series == f_out.daily_summary
        span == MinOf(RecordDays)..MaxOf(RecordDays)
    IN  /\ DatesOf(series) = SortSet({d \in span : IsBusinessDay(d)})
        /\ \A i \in DOMAIN series :
             series[i].Date \notin RecordDays => series[i].Total_Spent = 0

\* C17: a daily series shorter than 2 gives no forecast and a notice;
\* length 2..4 gives the flat-average forecast only; length >= 5 gives the
\* flat-average and the linear-trend forecast.
C17_ForecastMinimums ==
  TabsShown =>
    LET n == Len(f_out.daily_spending)
        fc == f_out.forecast
    IN  /\ n < 2 => fc.methods = {} /\ fc.notice # "none"
        /\ (2 <= n /\ n <= 4) => fc.methods = {"average"}
        /\ n >= 5 => fc.methods = {"average", "trend"}

\* C18: the forecast dates are the next business days strictly after the
\* last historical date: none on a Saturday or Sunday, strictly increasing,
\* and no business day in between left out.
C18_ForecastDates ==
  (TabsShown /\ f_out.forecast.methods # {}) =>
    LET fd == f_out.forecast.future_dates
        hist == f_out.daily_spending
        last == hist[Len(hist)].Date
    IN  /\ \A i \in DOMAIN fd : IsBusinessDay(fd[i])
        /\ \A i \in DOMAIN fd : fd[i] > last
        /\ \A i, j \in DOMAIN fd : i < j => fd[i] < fd[j]
        /\ Range(fd) = {d \in (last + 1)..fd[Len(fd)] : IsBusinessDay(d)}

\* ----------------------------------------------- categories and the store
CategorySetOk ==
  /\ \A i, j \in DOMAIN categories : categories[i] = categories[j] => i = j
  /\ \A i \in DOMAIN categories : categories[i] # ""

RecordOps ==
  {"add_expense", "undo_btn", "redo_btn", "reset_all", "reset_tracker",
   "confirm_sidebar", "confirm_upload", "load_failed"}

\* C19: the category list never holds a duplicate or an empty name; it
\* changes only by one new, non-empty name being appended; submitting the
\* category form with an empty name or a name already in the list leaves it
\* unchanged, and so do add, undo, redo, reset and import.
C19_CategorySet ==
  /\ []CategorySetOk
  /\ [][/\ categories' # categories =>
             \E n \in FormNames :
               /\ n # ""
               /\ n \notin Range(categories)
               /\ categories' = Append(categories, n)
        /\ (/\ last_action'.op = "add_cat_submit"
            /\ \/ last_action'.arg[1] = ""
               \/ last_action'.arg[1] \in Range(categories)) =>
             categories' = categories
        /\ last_action'.op \in RecordOps => categories' = categories]_vars

C19_Witness ==
  /\ last_action.op = "add_cat_submit"
  /\ last_action.arg = <<"Food">>
  /\ categories = DefaultCategories
  /\ disk.exists
  /\ disk.categories = DefaultCategories
  /\ heap[records] # <<>>

\* C20: after an add and after a confirmed import the records held before
\* are all still in the store, in the same order, the new rows after them.
C20_RecordsOnlyAppended ==
  (Added \/ Imported) =>
    /\ Len(last_action.pre) <= Len(heap[records])
    /\ SubSeq(heap[records], 1, Len(last_action.pre)) = last_action.pre

\* -------------------------------------------------------- the document
\* The document holds the categories now in memory and, record for record,
\* the records now in memory, a date being written as its string.
Mirrors ==
  /\ disk.categories = categories
  /\ Len(disk.records) = Len(heap[records])
  /\ \A i \in DOMAIN disk.records :
        /\ heap[records][i].Date.k = "ts"
        /\ disk.records[i] = [heap[records][i] EXCEPT !.Date = Str(@.d)]

\* A step of a mutating action: a valid add, an undo or redo that has a
\* snapshot to take, a reset, a confirmed import, an appended category.
MutatingStep ==
  \/ last_action'.op = "add_expense" /\ round_trip'.phase = "added"
  \/ last_action'.op = "undo_btn" /\ history # <<>>
  \/ last_action'.op = "redo_btn" /\ redo_stack # <<>>
  \/ last_action'.op \in {"reset_all", "reset_tracker", "confirm_sidebar",
                         "confirm_upload"}
  \/ last_action'.op = "add_cat_submit" /\ categories' # categories

\* C21: each mutating action makes exactly one save_data call, after which
\* the document holds the records and categories that are in memory; the
\* document keeps mirroring memory until the next mutation, and a new
\* session that loads it starts with the same records by value and the same
\* categories, with empty history and redo_stack.
C21_PersistenceMirrorsMemory ==
  /\ [](disk.exists => Mirrors)
  /\ [][MutatingStep => saves' = 1 /\ disk'.exists /\ Mirrors']_vars
  /\ [][disk.exists /\ last_action'.op = "new_session" =>
          /\ heap'[records'] = heap[records]
          /\ categories' = categories
          /\ history' = <<>>
          /\ redo_stack' = <<>>]_vars

C21_Witness ==
  /\ last_action.op = "new_session"
  /\ disk.exists
  /\ Len(heap[records]) = 2
  /\ heap[records] = load_data(disk).records
  /\ history = <<>>

\* C22: when the Category button has been clicked and the form is then
\* submitted with a non-empty name that is not in the list, the pass started
\* by the submit ends with that name as the last element of categories and
\* with the list saved in the document.
C22_CategoryCanBeAdded ==
  [][(/\ form_open
      /\ last_action.op = "add_cat_btn"
      /\ last_action'.op = "add_cat_submit"
      /\ category_is_new(last_action'.arg[1], categories)) =>
       /\ categories' = Append(categories, last_action'.arg[1])
       /\ disk'.exists
       /\ disk'.categories = categories']_vars

\* ------------------------------------------------------ the two stacks
Undone == last_action.op = "undo_btn" /\ before # NoStacks
Redone == last_action.op = "redo_btn" /\ before # NoStacks

\* C23: an undo that finds a snapshot shortens history by one and lengthens
\* redo_stack by one, a redo that finds one does the reverse; a redo right
\* after such an undo, and an undo right after such a redo, leave records,
\* history and redo_stack with the contents they had before the pair.
C23_UndoRedoMoveSnapshots ==
  /\ [][(last_action'.op = "undo_btn" /\ history # <<>>) =>
          /\ Len(history') = Len(history) - 1
          /\ Len(redo_stack') = Len(redo_stack) + 1]_vars
  /\ [][(last_action'.op = "redo_btn" /\ redo_stack # <<>>) =>
          /\ Len(redo_stack') = Len(redo_stack) - 1
          /\ Len(history') = Len(history) + 1]_vars
  /\ [][(\/ (Undone /\ last_action'.op = "redo_btn")
          \/ (Redone /\ last_action'.op = "undo_btn")) =>
          /\ heap'[records'] = last_action.pre
          /\ Contents(heap', history') = before.history
          /\ Contents(heap', redo_stack') = before.redo_stack]_vars

C23_Witness ==
  /\ last_action.op = "redo_btn"
  /\ round_trip.phase = "redone"
  /\ before.history # <<>>
  /\ before.redo_stack # <<>>
  /\ Len(history) = 2
  /\ redo_stack = <<>>
  /\ heap[records] # <<>>
====
